---- MODULE Spec2Model ----
(***************************************************************************)
(* sphinx-polyglot: the directives of src/sphinx-polyglot.py as a state    *)
(* machine.  The state is the Sphinx build environment the directives      *)
(* touch: env.ref_context['polyglot:namespace'], the per-domain registry   *)
(* env.domaindata[domain]['objects'], the ids of every document, and the   *)
(* reporter's warnings.  One action per directive class.                   *)
(*                                                                         *)
(* A Python string is a sequence of one-character strings, so that         *)
(* concatenation, strip() and the regular expressions are computed.        *)
(***************************************************************************)
EXTENDS Integers, Sequences, FiniteSets, TLC

\* Python's None.  A sequence, so that it compares with every string; its
\* element is no character.
None == <<"None">>

(***************************************************************************)
(* Characters and the character classes of the regular expressions.        *)
(***************************************************************************)
Lower == {"a","b","c","d","e","f","g","h","i","j","k","l","m",
          "n","o","p","q","r","s","t","u","v","w","x","y","z"}
Upper == {"A","B","C","D","E","F","G","H","I","J","K","L","M",
          "N","O","P","Q","R","S","T","U","V","W","X","Y","Z"}
Digit == {"0","1","2","3","4","5","6","7","8","9"}
\* \w
WordChars == Lower \cup Upper \cup Digit \cup {"_"}
\* \s (a signature is one line, so no newline occurs in it)
SpaceChars == {" ", "\t"}
Punct == {"(", ")", ".", "#", ":", "*", ",", "\\", "-", "[", "]", "<", ">"}
Chars == WordChars \cup SpaceChars \cup Punct
\* \S
NonSpaceChars == Chars \ SpaceChars
\* [^)]
NotCloseParen == Chars \ {")"}
\* [\w.]
WordDotChars == WordChars \cup {"."}
\* .  (every character but the newline)
AnyChar == Chars

(***************************************************************************)
(* str.strip()                                                             *)
(***************************************************************************)
RECURSIVE LStrip(_)
LStrip(s) == IF s # <<>> /\ Head(s) \in SpaceChars THEN LStrip(Tail(s)) ELSE s

RECURSIVE RStrip(_)
RStrip(s) ==
    IF s # <<>> /\ s[Len(s)] \in SpaceChars
    THEN RStrip(SubSeq(s, 1, Len(s) - 1))
    ELSE s

Strip(s) == RStrip(LStrip(s))

(***************************************************************************)
(* re.match of a compiled pattern.  A pattern is a sequence of items, each *)
(* a character class with a greedy repetition min..max (max = 0: no upper  *)
(* limit) and the number of the group it captures (0: none); the pattern   *)
(* ends with $.  Matching backtracks as Python's engine does: an item      *)
(* takes the longest run for which the rest of the pattern still matches.  *)
(***************************************************************************)
Lit(c)        == [cls |-> {c}, min |-> 1, max |-> 1, cap |-> 0]
Star(cls, g)  == [cls |-> cls, min |-> 0, max |-> 0, cap |-> g]
Plus(cls, g)  == [cls |-> cls, min |-> 1, max |-> 0, cap |-> g]

NoMatch == <<0>>

\* the length of the longest run of characters of cls in s from position i
RECURSIVE RunLength(_, _, _)
RunLength(cls, s, i) ==
    IF i <= Len(s) /\ s[i] \in cls THEN 1 + RunLength(cls, s, i + 1) ELSE 0

\* MatchFrom(re, k, s, i): the positions after each of the items k.. of re,
\* matched in s from position i, or NoMatch.  TakeAtMost: item k takes n
\* characters, or the most below n for which the rest matches.
RECURSIVE MatchFrom(_, _, _, _), TakeAtMost(_, _, _, _, _)
TakeAtMost(re, k, s, i, n) ==
    IF n < re[k].min
    THEN NoMatch
    ELSE LET rest == MatchFrom(re, k + 1, s, i + n)
         IN IF rest # NoMatch
            THEN <<i + n>> \o rest
            ELSE TakeAtMost(re, k, s, i, n - 1)

MatchFrom(re, k, s, i) ==
    IF k > Len(re)
    THEN IF i = Len(s) + 1 THEN <<>> ELSE NoMatch
    ELSE LET run == RunLength(re[k].cls, s, i)
         IN TakeAtMost(re, k, s, i,
                       IF re[k].max = 0 \/ run < re[k].max THEN run ELSE re[k].max)

\* m.groups(): the text of group g, given the positions after each item
Group(re, s, ends, g) ==
    LET k == CHOOSE j \in 1..Len(re) : re[j].cap = g
        from == IF k = 1 THEN 1 ELSE ends[k - 1]
    IN SubSeq(s, from, ends[k] - 1)

(***************************************************************************)
(* The nodes a directive appends to sig_node.                              *)
(***************************************************************************)
Node(kind, text) == [node |-> kind, text |-> text, children |-> <<>>]

\* PolyglotObject.make_namespace_prefix
MakeNamespacePrefix(name) == Node("desc_addname", name)

\* PolyglotObject.make_parameter_list(*params): one desc_parameter per param
MakeParameterList(params) ==
    [node |-> "desc_parameterlist", text |-> <<>>, children |-> params]

(***************************************************************************)
(* GoFuncDirective.GO_FUNC_SIG_RE, with and without the optional group of  *)
(* the method receiver (a greedy ? tries the group first).                 *)
(***************************************************************************)
GoFuncTail ==
    << Star(SpaceChars, 0),
       Plus(WordDotChars, 2), Star(SpaceChars, 0),
       Lit("("), Star(NotCloseParen, 3), Lit(")"), Star(SpaceChars, 0),
       Star(AnyChar, 4) >>

\* a receiver group that captures the whole clause
GoFuncReceiverWholeClause ==
    << Lit("("), Plus(NotCloseParen, 1), Lit(")") >>

GoFuncReceiver ==
    << Lit("("), Plus(NonSpaceChars, 0), Plus(SpaceChars, 0),
       Plus(NotCloseParen, 1), Lit(")") >>

\* GO_FUNC_SIG_RE.match(sig): None, or the groups
\* (method_receiver, func_name, func_params, func_return)
GoFuncSigMatch(sig) ==
    LET with    == GoFuncReceiver \o GoFuncTail
        m1      == MatchFrom(with, 1, sig, 1)
        m0      == MatchFrom(GoFuncTail, 1, sig, 1)
    IN IF m1 # NoMatch
       THEN << Group(with, sig, m1, 1), Group(with, sig, m1, 2),
               Group(with, sig, m1, 3), Group(with, sig, m1, 4) >>
       ELSE IF m0 # NoMatch
       THEN << None, Group(GoFuncTail, sig, m0, 2),
               Group(GoFuncTail, sig, m0, 3), Group(GoFuncTail, sig, m0, 4) >>
       ELSE None

\* a property pattern whose "#" may be missing
KotlinMethodSigReOptionalHash ==
    << Plus(WordDotChars, 1), [cls |-> {"#"}, min |-> 0, max |-> 1, cap |-> 0],
       Plus(WordChars, 2), Star(SpaceChars, 0),
       Lit(":"), Star(SpaceChars, 0), Star(AnyChar, 3) >>

\* KotlinPropertyDirective.KOTLIN_METHOD_SIG_RE
KotlinMethodSigRe ==
    << Plus(WordDotChars, 1), Lit("#"), Plus(WordChars, 2), Star(SpaceChars, 0),
       Lit(":"), Star(SpaceChars, 0), Star(AnyChar, 3) >>

\* KOTLIN_METHOD_SIG_RE.match(sig): None, or (class_name, prop_name, prop_type)
KotlinMethodSigMatch(sig) ==
    LET m == MatchFrom(KotlinMethodSigRe, 1, sig, 1)
    IN IF m = NoMatch
       THEN None
       ELSE << Group(KotlinMethodSigRe, sig, m, 1),
               Group(KotlinMethodSigRe, sig, m, 2),
               Group(KotlinMethodSigRe, sig, m, 3) >>

\* SQLFunctionDirective.SQL_FUNCTION_SIG_RE
SqlFunctionSigRe ==
    << Plus(WordDotChars, 1), Star(SpaceChars, 0),
       Lit("("), Star(NotCloseParen, 2), Lit(")"), Star(SpaceChars, 0),
       Star(AnyChar, 3) >>

\* SQL_FUNCTION_SIG_RE.match(sig): None, or (func_name, func_params, func_return)
SqlFunctionSigMatch(sig) ==
    LET m == MatchFrom(SqlFunctionSigRe, 1, sig, 1)
    IN IF m = NoMatch
       THEN None
       ELSE << Group(SqlFunctionSigRe, sig, m, 1),
               Group(SqlFunctionSigRe, sig, m, 2),
               Group(SqlFunctionSigRe, sig, m, 3) >>

(***************************************************************************)
(* describe_signature of each directive class: what it raises or returns,  *)
(* the nodes it appends to sig_node, and the groups it matched.            *)
(***************************************************************************)
Described(result, nodes, groups) ==
    [raised |-> FALSE, result |-> result, nodes |-> nodes, groups |-> groups]

\* raise ValueError('no match'), before any node is appended
Raised == [raised |-> TRUE, result |-> None, nodes |-> <<>>, groups |-> None]

IfSome(cond, nodes) == IF cond THEN nodes ELSE <<>>

\* a describe_signature that joins with "." whatever the separator
PolyglotDescribeSignatureDotted(directive_name, namespace_separator, sig, ns) ==
    Described(None,
        << Node("desc_annotation", directive_name \o <<" ">>) >>
        \o IfSome(namespace_separator # None /\ ns # None,
                  << MakeNamespacePrefix(ns \o <<".">>) >>)
        \o << Node("desc_name", sig) >>,
        None)

\* a describe_signature that does not read the namespace context
PolyglotDescribeSignatureUnprefixed(directive_name, namespace_separator, sig, ns) ==
    Described(None,
        << Node("desc_annotation", directive_name \o <<" ">>),
           Node("desc_name", sig) >>,
        None)

\* PolyglotDirective.describe_signature (returns None)
PolyglotDescribeSignature(directive_name, namespace_separator, sig, ns) ==
    Described(None,
        << Node("desc_annotation", directive_name \o <<" ">>) >>
        \o IfSome(namespace_separator # None /\ ns # None,
                  << MakeNamespacePrefix(ns \o namespace_separator) >>)
        \o << Node("desc_name", sig) >>,
        None)

\* GoFuncDirective.describe_signature
GoFuncDescribeSignature(sig, ns) ==
    LET g == GoFuncSigMatch(sig)
    IN IF g = None
       THEN Raised
       ELSE Described(g[2],
                << Node("desc_annotation", <<"f","u","n","c"," ">>) >>
                \o IfSome(g[1] # None, << MakeParameterList(<<g[1]>>) >>)
                \o IfSome(ns # None, << MakeNamespacePrefix(ns \o <<".">>) >>)
                \o << Node("desc_name", g[2]) >>
                \o IfSome(g[3] # None, << MakeParameterList(<<g[3]>>) >>)
                \o IfSome(g[4] # None /\ Len(g[4]) > 0,
                          << Node("Text", <<" ">>), Node("desc_returns", g[4]) >>),
                g)

\* KotlinPropertyDirective.describe_signature
KotlinPropertyDescribeSignature(sig, ns) ==
    LET g == KotlinMethodSigMatch(sig)
    IN IF g = None
       THEN Raised
       ELSE Described(g[1] \o <<"#">> \o g[2],
                << Node("desc_annotation",
                        <<"p","r","o","p","e","r","t","y"," ">>) >>
                \o IfSome(ns # None,
                          << MakeNamespacePrefix(ns \o <<".">> \o g[1] \o <<".">>) >>)
                \o << Node("desc_name", g[2]) >>
                \o IfSome(g[3] # None /\ Len(g[3]) > 0,
                          << Node("Text", <<" ">>), Node("desc_returns", g[3]) >>),
                g)

\* SQLFunctionDirective.describe_signature
SqlFunctionDescribeSignature(sig, ns) ==
    LET g == SqlFunctionSigMatch(sig)
    IN IF g = None
       THEN Raised
       ELSE Described(g[1],
                << Node("desc_annotation",
                        <<"f","u","n","c","t","i","o","n"," ">>) >>
                \o IfSome(ns # None, << MakeNamespacePrefix(ns \o <<".">>) >>)
                \o << Node("desc_name", g[1]) >>
                \o IfSome(g[2] # None, << MakeParameterList(<<g[2]>>) >>)
                \o IfSome(g[3] # None /\ Len(g[3]) > 0,
                          << Node("Text", <<" ">>), Node("desc_returns", g[3]) >>),
                g)

\* a handle_signature that returns the signature whatever was described
HandleSignatureIgnoringResult(result, sig) == sig

\* PolyglotObject.handle_signature, given what describe_signature returned
HandleSignature(result, sig) == IF result = None THEN sig ELSE result

(***************************************************************************)
(* The directive classes and the directives table of every domain that     *)
(* setup() registers (JSDomain is not registered).                         *)
(***************************************************************************)
MakeDirective(directive_name, namespace_separator) ==
    [cls |-> "PolyglotDirective", directive_name |-> directive_name,
     namespace_separator |-> namespace_separator]

\* a namespace directive whose run() is not overridden
MakeNamespaceDirectivePlain(directive_name) == MakeDirective(directive_name, None)

MakeNamespaceDirective(directive_name) ==
    [MakeDirective(directive_name, None) EXCEPT !.cls = "PolyglotNamespaceDirective"]

GoFuncDirective ==
    [MakeDirective(<<"f","u","n","c","t","i","o","n">>, None)
        EXCEPT !.cls = "GoFuncDirective"]

KotlinPropertyDirective ==
    [MakeDirective(<<"p","r","o","p","e","r","t","y">>, None)
        EXCEPT !.cls = "KotlinPropertyDirective"]

SQLFunctionDirective ==
    [MakeDirective(<<"f","u","n","c","t","i","o","n">>, None)
        EXCEPT !.cls = "SQLFunctionDirective"]

CLDomain ==
    [name |-> "lisp", label |-> <<"C","o","m","m","o","n"," ","L","i","s","p">>, directives |-> [
       class     |-> MakeDirective(<<"c","l","a","s","s">>, <<":">>),
       package   |-> MakeNamespaceDirective(<<"p","a","c","k","a","g","e">>),
       system    |-> MakeDirective(<<"s","y","s","t","e","m">>, None)]]

DotnetDomain ==
    [name |-> "dotnet", label |-> <<".","N","E","T">>, directives |-> [
       assembly  |-> MakeDirective(<<"a","s","s","e","m","b","l","y">>, None),
       class     |-> MakeDirective(<<"c","l","a","s","s">>, <<".">>),
       namespace |-> MakeNamespaceDirective(<<"n","a","m","e","s","p","a","c","e">>)]]

ElixirDomain ==
    [name |-> "ex", label |-> <<"E","l","i","x","i","r">>, directives |-> [
       module    |-> MakeNamespaceDirective(<<"m","o","d","u","l","e">>),
       package   |-> MakeDirective(<<"p","a","c","k","a","g","e">>, None)]]

ErlangDomain ==
    [name |-> "erl", label |-> <<"E","r","l","a","n","g">>, directives |-> [
       module    |-> MakeNamespaceDirective(<<"m","o","d","u","l","e">>),
       package   |-> MakeDirective(<<"p","a","c","k","a","g","e">>, None)]]

GoDomain ==
    [name |-> "go", label |-> <<"G","o">>, directives |-> [
       const     |-> MakeDirective(<<"c","o","n","s","t","a","n","t">>, <<".">>),
       func      |-> GoFuncDirective,
       package   |-> MakeNamespaceDirective(<<"p","a","c","k","a","g","e">>),
       type      |-> MakeDirective(<<"t","y","p","e">>, <<".">>)]]

JavaDomain ==
    [name |-> "java", label |-> <<"J","a","v","a">>, directives |-> [
       class     |-> MakeDirective(<<"c","l","a","s","s">>, <<".">>),
       package   |-> MakeNamespaceDirective(<<"p","a","c","k","a","g","e">>),
       method    |-> MakeDirective(<<"m","e","t","h","o","d">>, None)]]

JVMDomain ==
    [name |-> "jvm", label |-> <<"J","V","M">>, directives |-> [
       class     |-> MakeDirective(<<"c","l","a","s","s">>, <<".">>),
       package   |-> MakeNamespaceDirective(<<"p","a","c","k","a","g","e">>),
       method    |-> MakeDirective(<<"m","e","t","h","o","d">>, None)]]

KotlinDomain ==
    [name |-> "kt", label |-> <<"K","o","t","l","i","n">>, directives |-> [
       class     |-> MakeDirective(<<"c","l","a","s","s">>, <<".">>),
       package   |-> MakeNamespaceDirective(<<"p","a","c","k","a","g","e">>),
       method    |-> MakeDirective(<<"m","e","t","h","o","d">>, None),
       property  |-> KotlinPropertyDirective]]

LuaDomain ==
    [name |-> "lua", label |-> <<"L","u","a">>, directives |-> [
       module    |-> MakeNamespaceDirective(<<"m","o","d","u","l","e">>)]]

OCamlDomain ==
    [name |-> "ml", label |-> <<"O","C","a","m","l">>, directives |-> [
       module    |-> MakeNamespaceDirective(<<"m","o","d","u","l","e">>),
       package   |-> MakeDirective(<<"p","a","c","k","a","g","e">>, None)]]

PHPDomain ==
    [name |-> "php", label |-> <<"P","H","P">>, directives |-> [
       class     |-> MakeDirective(<<"c","l","a","s","s">>, <<"\\">>),
       namespace |-> MakeNamespaceDirective(<<"n","a","m","e","s","p","a","c","e">>),
       package   |-> MakeDirective(<<"p","a","c","k","a","g","e">>, None)]]

RubyDomain ==
    [name |-> "rb", label |-> <<"R","u","b","y">>, directives |-> [
       class     |-> MakeDirective(<<"c","l","a","s","s">>, <<":",":">>),
       library   |-> MakeDirective(<<"l","i","b","r","a","r","y">>, None),
       module    |-> MakeNamespaceDirective(<<"m","o","d","u","l","e">>)]]

SQLDomain ==
    [name |-> "sql", label |-> <<"S","Q","L">>, directives |-> [
       channel   |-> MakeDirective(<<"c","h","a","n","n","e","l">>, <<".">>),
       function  |-> SQLFunctionDirective,
       schema    |-> MakeNamespaceDirective(<<"s","c","h","e","m","a">>),
       table     |-> MakeDirective(<<"t","a","b","l","e">>, <<".">>),
       trigger   |-> MakeDirective(<<"t","r","i","g","g","e","r">>, <<".">>),
       type      |-> MakeDirective(<<"t","y","p","e">>, <<".">>),
       view      |-> MakeDirective(<<"v","i","e","w">>, <<".">>)]]

\* setup(): app.add_domain of every domain but JSDomain
RegisteredDomains ==
    { CLDomain, DotnetDomain, ElixirDomain, ErlangDomain, GoDomain, JavaDomain,
      JVMDomain, KotlinDomain, LuaDomain, OCamlDomain, PHPDomain, RubyDomain,
      SQLDomain }

DomainNames == { d.name : d \in RegisteredDomains }

DomainOf(dom) == CHOOSE d \in RegisteredDomains : d.name = dom

\* the directive class the host instantiates for "<dom>:<objtype>"
Directive(dom, objtype) == DomainOf(dom).directives[objtype]

ObjTypes(dom) == DOMAIN DomainOf(dom).directives

(***************************************************************************)
(* The build state.                                                        *)
(***************************************************************************)
VARIABLES
    namespace,  \* env.ref_context.get('polyglot:namespace'): None or a string
    objects,    \* objects[dom] = env.domaindata[dom]['objects']: key -> docname
    ids,        \* ids[doc] = the ids of state.document of document doc
    warnings,   \* the warnings given to state_machine.reporter, in order
    out,        \* what the last directive produced: sig_node, name, index entry
    log         \* history: one record per directive processed, in order

vars == <<namespace, objects, ids, warnings, out, log>>

\* the documents of the build (env.docname)
Docs == {"index", "api"}

\* env.doc2path(docname)
Doc2Path(docname) == [index |-> "index.rst", api |-> "api.rst"][docname]

\* target_name = '%s-%s' % (self.objtype, name).  objtype is a key of a
\* directives table and holds no '-', so the pair determines the string.
TargetName(objtype, name) == <<objtype, name>>

\* key = (self.objtype, name)
ObjectKey(objtype, name) == <<objtype, name>>

\* add_target_and_index without the test of the document's ids
IsNewTargetAlways(target_name, document_ids) == TRUE

\* if target_name not in self.state.document.ids
IsNewTarget(target_name, document_ids) == target_name \notin document_ids

\* if key in objects: reporter.warning(... + env.doc2path(objects[key]))
DuplicateWarnings(objtype, name, objs) ==
    IF ObjectKey(objtype, name) \in DOMAIN objs
    THEN << [objtype |-> objtype, name |-> name,
             other |-> Doc2Path(objs[ObjectKey(objtype, name)])] >>
    ELSE <<>>

\* a registry in which the first declaration wins
RecordFirstWins(objs, key, docname) ==
    [k \in DOMAIN objs \cup {key} |-> IF k \in DOMAIN objs THEN objs[k] ELSE docname]

\* objects[key] = self.env.docname
Record(objs, key, docname) ==
    [k \in DOMAIN objs \cup {key} |-> IF k = key THEN docname ELSE objs[k]]

\* PolyglotDirective.get_index_text
GetIndexText(name, domain_label, directive_name) ==
    name \o <<" ", "(">> \o domain_label \o <<" ">> \o directive_name \o <<")">>

\* a namespace context set to the argument as given
NamespaceOfArgumentUnstripped(argument) == argument

\* env.ref_context['polyglot:namespace'] = self.arguments[0].strip()
NamespaceOfArgument(argument) == Strip(argument)

NoOutput ==
    [raised |-> FALSE, name |-> None, nodes |-> <<>>, groups |-> None,
     index |-> <<>>]

Init ==
    /\ namespace = None
    /\ objects = [dom \in DomainNames |-> <<>>]
    /\ ids = [doc \in Docs |-> {}]
    /\ warnings = <<>>
    /\ out = NoOutput
    /\ log = <<>>

(***************************************************************************)
(* The host's ObjectDescription.run for one signature: handle_signature,   *)
(* and unless it raised ValueError, add_target_and_index.  d is what       *)
(* describe_signature did, ns the namespace context it read.               *)
(***************************************************************************)
Process(dom, objtype, argument, docname, d, ns) ==
    LET dir         == Directive(dom, objtype)
        sig         == Strip(argument)
        name        == HandleSignature(d.result, sig)
        target_name == TargetName(objtype, name)
        fresh       == ~d.raised /\ IsNewTarget(target_name, ids[docname])
        warned      == IF fresh
                       THEN DuplicateWarnings(objtype, name, objects[dom])
                       ELSE <<>>
        index_text  == GetIndexText(name, DomainOf(dom).label, dir.directive_name)
    IN /\ ids' = IF fresh
                 THEN [ids EXCEPT ![docname] = @ \cup {target_name}]
                 ELSE ids
       /\ warnings' = warnings \o warned
       /\ objects' = IF fresh
                     THEN [objects EXCEPT
                             ![dom] = Record(@, ObjectKey(objtype, name), docname)]
                     ELSE objects
       /\ out' = IF d.raised
                 THEN [NoOutput EXCEPT !.raised = TRUE]
                 ELSE [raised |-> FALSE, name |-> name, nodes |-> d.nodes,
                       groups |-> d.groups,
                       index |-> << [text |-> index_text, target |-> target_name] >>]
       /\ log' = Append(log,
                   [dom |-> dom, objtype |-> objtype, cls |-> dir.cls,
                    argument |-> argument, sig |-> sig, doc |-> docname,
                    ns |-> ns, raised |-> d.raised,
                    name |-> IF d.raised THEN None ELSE name,
                    fresh |-> fresh, warned |-> warned])

\* a directive made by make_directive
RunPolyglotDirective(dom, objtype, argument, docname) ==
    LET dir == Directive(dom, objtype)
    IN /\ dir.cls = "PolyglotDirective"
       /\ UNCHANGED namespace
       /\ Process(dom, objtype, argument, docname,
                  PolyglotDescribeSignature(dir.directive_name,
                      dir.namespace_separator, Strip(argument), namespace),
                  namespace)

\* a directive made by make_namespace_directive: run() sets the namespace
\* context, then runs as the make_directive(directive_name, None) it extends
RunPolyglotNamespaceDirective(dom, objtype, argument, docname) ==
    LET dir == Directive(dom, objtype)
    IN /\ dir.cls = "PolyglotNamespaceDirective"
       /\ namespace' = NamespaceOfArgument(argument)
       /\ Process(dom, objtype, argument, docname,
                  PolyglotDescribeSignature(dir.directive_name,
                      dir.namespace_separator, Strip(argument),
                      NamespaceOfArgument(argument)),
                  NamespaceOfArgument(argument))

RunGoFuncDirective(dom, objtype, argument, docname) ==
    /\ Directive(dom, objtype).cls = "GoFuncDirective"
    /\ UNCHANGED namespace
    /\ Process(dom, objtype, argument, docname,
               GoFuncDescribeSignature(Strip(argument), namespace), namespace)

RunKotlinPropertyDirective(dom, objtype, argument, docname) ==
    /\ Directive(dom, objtype).cls = "KotlinPropertyDirective"
    /\ UNCHANGED namespace
    /\ Process(dom, objtype, argument, docname,
               KotlinPropertyDescribeSignature(Strip(argument), namespace),
               namespace)

RunSQLFunctionDirective(dom, objtype, argument, docname) ==
    /\ Directive(dom, objtype).cls = "SQLFunctionDirective"
    /\ UNCHANGED namespace
    /\ Process(dom, objtype, argument, docname,
               SqlFunctionDescribeSignature(Strip(argument), namespace),
               namespace)

(***************************************************************************)
(* Bounds and inputs.                                                      *)
(***************************************************************************)
\* directives processed in one build, under Spec
MaxDirectives == 2
\* directives processed in one build, under SpecRegistry
MaxRegistryDirectives == 3
\* the longest name, parameter list, return type and receiver part of the
\* signatures built from parts, and the longest signature taken whole
MaxName == 1
MaxParams == 2
MaxReturn == 1
MaxReceiver == 1
MaxLen == 4

\* the strings over alphabet of length lo..hi
Strings(alphabet, lo, hi) == UNION { [1..n -> alphabet] : n \in lo..hi }

\* what the host hands a directive is one stripped, non-empty line
Stripped(S) == { s \in S : s # <<>> /\ Strip(s) = s }

AllDirectives ==
    UNION { { <<dom, objtype>> : objtype \in ObjTypes(dom) } : dom \in DomainNames }

\* the directives the registry is explored with: two domains with a common
\* object type, a namespace directive and the three parsing directives
RegistryDirectives ==
    { <<"go", "type">>, <<"sql", "type">>, <<"go", "package">>,
      <<"go", "func">>, <<"kt", "property">>, <<"sql", "function">> }

\* arguments of the build specifications
NamespaceArguments == { <<"N">>, <<" ", "M", ".", "K", " ">> }
NameArguments      == { <<"L">> }
GoFuncArguments    == { <<"F", "(", ")">>, <<"F">> }
KotlinArguments    == { <<"C", "#", "p", ":">>, <<"C">> }
SqlArguments       == { <<"f", "(", ")">>, <<"f">> }

\* signatures of the parsing specification, built from parts
Gap == { <<>>, <<" ">> }

Join(name, gap, params, ret) ==
    name \o gap \o <<"(">> \o params \o <<")">>
         \o (IF ret = <<>> THEN <<>> ELSE <<" ">> \o ret)

FuncNames   == Strings({"f", "."}, 1, MaxName)
FuncParams  == Strings({"a", "(", ")"}, 0, MaxParams)
FuncReturns == Strings({"r"}, 0, MaxReturn)

\* the parameter lists whose parentheses are balanced
RECURSIVE Depth(_, _)
Depth(s, d) ==
    IF s = <<>> THEN d
    ELSE IF d < 0 THEN d
    ELSE Depth(Tail(s), d + (IF Head(s) = "(" THEN 1
                             ELSE IF Head(s) = ")" THEN 0 - 1 ELSE 0))

Balanced(s) == Depth(s, 0) = 0

ReceiverClause(var, type) == <<"(">> \o var \o <<" ">> \o type \o <<")", " ">>

Receivers ==
    { ReceiverClause(v, ty) : v \in Strings({"s"}, 1, MaxReceiver),
                              ty \in Strings({"T", " "}, 1, MaxReceiver) }

FuncSignatures ==
    { Join(n, g, p, r) : n \in FuncNames, g \in Gap, p \in FuncParams,
                         r \in FuncReturns }

MethodSignatures == { rc \o f : rc \in Receivers, f \in FuncSignatures }

\* the example of the specification, with and without the func keyword
HandleSignatureText ==
    <<"(","s"," ","*","S","e","r","v","e","r",")"," ","H","a","n","d","l","e",
      "(","r","e","q"," ","*","R","e","q","u","e","s","t",")"," ",
      "e","r","r","o","r">>

FuncHandleSignatureText == <<"f","u","n","c"," ">> \o HandleSignatureText

\* a Go function with a parameter of function type
MapSignatureText ==
    <<"M","a","p","(","f"," ","f","u","n","c","(","i","n","t",")"," ",
      "i","n","t",")"," ","[","]","i","n","t">>

GoSignatures ==
    FuncSignatures \cup MethodSignatures
    \cup Stripped(Strings({"f", "(", ")", " "}, 1, MaxLen))
    \cup { HandleSignatureText, FuncHandleSignatureText, MapSignatureText }

SqlSignatures ==
    FuncSignatures \cup Stripped(Strings({"f", "(", ")", " "}, 1, MaxLen))

Owners  == Strings({"C", "."}, 1, MaxName)
Members == Strings({"p"}, 1, MaxName)
Types   == Stripped(Strings({"T", ":", "#"}, 1, MaxReturn)) \cup { <<>> }

PropertySignature(owner, member, gap, type) ==
    owner \o <<"#">> \o member \o gap \o <<":">>
          \o (IF type = <<>> THEN <<>> ELSE <<" ">> \o type)

PropertySignatures ==
    { PropertySignature(o, m, g, ty) : o \in Owners, m \in Members, g \in Gap,
                                       ty \in Types }

WidgetSignatureText ==
    <<"W","i","d","g","e","t","#","s","i","z","e",":"," ","I","n","t">>

KotlinSignatures ==
    PropertySignatures \cup Stripped(Strings({"C", "#", ":", " "}, 1, MaxLen))
    \cup { WidgetSignatureText }

(***************************************************************************)
(* Specifications.  The host processes the directives one at a time, in    *)
(* document order; each runs to completion.                                *)
(***************************************************************************)
\* every registered directive, in one document
Next ==
    \/ /\ Len(log) < MaxDirectives
       /\ \E dir \in AllDirectives, docname \in {"index"}, a \in NamespaceArguments :
             RunPolyglotNamespaceDirective(dir[1], dir[2], a, docname)
    \/ /\ Len(log) < MaxDirectives
       /\ \E dir \in AllDirectives, docname \in {"index"}, a \in NameArguments :
             RunPolyglotDirective(dir[1], dir[2], a, docname)
    \/ /\ Len(log) < MaxDirectives
       /\ \E dir \in AllDirectives, docname \in {"index"}, a \in GoFuncArguments :
             RunGoFuncDirective(dir[1], dir[2], a, docname)
    \/ /\ Len(log) < MaxDirectives
       /\ \E dir \in AllDirectives, docname \in {"index"}, a \in KotlinArguments :
             RunKotlinPropertyDirective(dir[1], dir[2], a, docname)
    \/ /\ Len(log) < MaxDirectives
       /\ \E dir \in AllDirectives, docname \in {"index"}, a \in SqlArguments :
             RunSQLFunctionDirective(dir[1], dir[2], a, docname)

Spec == Init /\ [][Next]_vars

\* the registry across two documents
NextRegistry ==
    \/ /\ Len(log) < MaxRegistryDirectives
       /\ \E dir \in RegistryDirectives, docname \in Docs, a \in {<<"N">>} :
             RunPolyglotNamespaceDirective(dir[1], dir[2], a, docname)
    \/ /\ Len(log) < MaxRegistryDirectives
       /\ \E dir \in RegistryDirectives, docname \in Docs, a \in NameArguments :
             RunPolyglotDirective(dir[1], dir[2], a, docname)
    \/ /\ Len(log) < MaxRegistryDirectives
       /\ \E dir \in RegistryDirectives, docname \in Docs, a \in {<<"F", "(", ")">>} :
             RunGoFuncDirective(dir[1], dir[2], a, docname)
    \/ /\ Len(log) < MaxRegistryDirectives
       /\ \E dir \in RegistryDirectives, docname \in Docs, a \in {<<"C", "#", "p", ":">>} :
             RunKotlinPropertyDirective(dir[1], dir[2], a, docname)
    \/ /\ Len(log) < MaxRegistryDirectives
       /\ \E dir \in RegistryDirectives, docname \in Docs, a \in {<<"f", "(", ")">>} :
             RunSQLFunctionDirective(dir[1], dir[2], a, docname)

SpecRegistry == Init /\ [][NextRegistry]_vars

\* one directive with a signature out of the bounded sets
NextParse ==
    \/ /\ log = <<>>
       /\ \E dir \in AllDirectives, docname \in {"index"}, a \in NamespaceArguments :
             RunPolyglotNamespaceDirective(dir[1], dir[2], a, docname)
    \/ /\ log = <<>>
       /\ \E dir \in AllDirectives, docname \in {"index"}, a \in NameArguments :
             RunPolyglotDirective(dir[1], dir[2], a, docname)
    \/ /\ log = <<>>
       /\ \E dir \in AllDirectives, docname \in {"index"}, a \in GoSignatures :
             RunGoFuncDirective(dir[1], dir[2], a, docname)
    \/ /\ log = <<>>
       /\ \E dir \in AllDirectives, docname \in {"index"}, a \in KotlinSignatures :
             RunKotlinPropertyDirective(dir[1], dir[2], a, docname)
    \/ /\ log = <<>>
       /\ \E dir \in AllDirectives, docname \in {"index"}, a \in SqlSignatures :
             RunSQLFunctionDirective(dir[1], dir[2], a, docname)

SpecParse == Init /\ [][NextParse]_vars

(***************************************************************************)
(* Reading the state.                                                      *)
(***************************************************************************)
Last(s) == s[Len(s)]

\* the text of the first node of a kind in the last sig_node, or None
TextOf(kind) ==
    LET ns == SelectSeq(out.nodes, LAMBDA n : n.node = kind)
    IN IF ns = <<>> THEN None ELSE ns[1].text

\* the name as displayed: the desc_addname prefix, if any, then the desc_name
DisplayedName ==
    (IF TextOf("desc_addname") = None THEN <<>> ELSE TextOf("desc_addname"))
    \o TextOf("desc_name")

\* the last directive processed was a member directive (any class but the
\* namespace directive) whose signature parsed
MemberDone ==
    /\ log # <<>>
    /\ Last(log).cls # "PolyglotNamespaceDirective"
    /\ ~Last(log).raised

\* the directives made by make_namespace_directive, read off the tables of
\* src/sphinx-polyglot.py lines 204-310
NamespaceIntroducing ==
    { <<"lisp", "package">>, <<"dotnet", "namespace">>, <<"ex", "module">>,
      <<"erl", "module">>, <<"go", "package">>, <<"java", "package">>,
      <<"jvm", "package">>, <<"kt", "package">>, <<"lua", "module">>,
      <<"ml", "module">>, <<"php", "namespace">>, <<"rb", "module">>,
      <<"sql", "schema">> }

IntroducesNamespace(e) == <<e.dom, e.objtype>> \in NamespaceIntroducing

\* the separator each language's member directives are registered with
\* (None: the language registers none)
LanguageSeparator ==
    [lisp |-> <<":">>, dotnet |-> <<".">>, ex |-> None, erl |-> None,
     go |-> <<".">>, java |-> <<".">>, jvm |-> <<".">>, kt |-> <<".">>,
     lua |-> None, ml |-> None, php |-> <<"\\">>, rb |-> <<":", ":">>,
     sql |-> <<".">>]

\* the member directives registered without a separator
WithoutSeparator ==
    { <<"lisp", "system">>, <<"dotnet", "assembly">>, <<"ex", "package">>,
      <<"erl", "package">>, <<"java", "method">>, <<"jvm", "method">>,
      <<"kt", "method">>, <<"ml", "package">>, <<"php", "package">>,
      <<"rb", "library">> }

\* the local name in each member argument of Spec and SpecRegistry
LocalName(argument) ==
    CASE argument = <<"L">>                -> <<"L">>
      [] argument = <<"F", "(", ")">>      -> <<"F">>
      [] argument = <<"C", "#", "p", ":">> -> <<"C", "#", "p">>
      [] argument = <<"f", "(", ")">>      -> <<"f">>
      [] OTHER                             -> None

\* the index of the last namespace directive among the first n of the log,
\* or 0
RECURSIVE LastNamespaceDirective(_)
LastNamespaceDirective(n) ==
    IF n = 0 THEN 0
    ELSE IF IntroducesNamespace(log[n]) THEN n
    ELSE LastNamespaceDirective(n - 1)

\* the stripped argument of the last namespace directive among the first n
\* directives of the log, or None
ContextAfter(n) ==
    IF LastNamespaceDirective(n) = 0
    THEN None
    ELSE Strip(log[LastNamespaceDirective(n)].argument)

\* directive j of the log found no id kind-name in its document: no earlier
\* directive declared that kind and name in the same document
FirstInDocument(j) ==
    /\ ~log[j].raised
    /\ \A i \in 1..(j - 1) :
          ~(/\ ~log[i].raised
            /\ log[i].doc = log[j].doc
            /\ log[i].objtype = log[j].objtype
            /\ log[i].name = log[j].name)

\* the earlier declarations of the key of directive j through its domain
EarlierDeclarations(j) ==
    { i \in 1..(j - 1) : /\ ~log[i].raised
                         /\ log[i].dom = log[j].dom
                         /\ log[i].objtype = log[j].objtype
                         /\ log[i].name = log[j].name }

SetMax(S) == CHOOSE x \in S : \A y \in S : y <= x
SetMin(S) == CHOOSE x \in S : \A y \in S : x <= y

(***************************************************************************)
(* C1                                                                      *)
(***************************************************************************)
\* C1 as stated: when a member directive is processed with a namespace
\* context active, the name handle_signature returns (the registry key) is
\* the canonical qualified name, the namespace joined to the local name.
C1_ReturnsQualifiedName ==
    (MemberDone /\ Last(log).ns # None /\ TextOf("desc_addname") # None)
        => out.name = DisplayedName

\* C1 amended: the name a member directive returns, and the key under which
\* it is registered, is the local name of the signature without the
\* namespace (the signature itself, func_name, or class_name#prop_name),
\* whatever the namespace context; no registry key carries a namespace.
C1_ReturnsLocalName ==
    /\ MemberDone => /\ out.name = LocalName(Last(log).argument)
                     /\ out.index[1].target = <<Last(log).objtype, out.name>>
                     /\ Last(log).fresh =>
                          ObjectKey(Last(log).objtype,
                                    LocalName(Last(log).argument))
                             \in DOMAIN objects[Last(log).dom]
    /\ \A dom \in DomainNames : \A key \in DOMAIN objects[dom] :
          \E i \in 1..Len(log) :
             /\ log[i].dom = dom
             /\ key = << log[i].objtype,
                         IF IntroducesNamespace(log[i])
                         THEN Strip(log[i].argument)
                         ELSE LocalName(log[i].argument) >>

\* a class is registered under its local name while displayed as N::L
C1_Witness ==
    /\ MemberDone
    /\ Last(log).dom = "rb" /\ Last(log).objtype = "class"
    /\ Last(log).ns = <<"N">>
    /\ DisplayedName = <<"N", ":", ":", "L">>
    /\ out.name = <<"L">>
    /\ <<"class", <<"L">>>> \in DOMAIN objects["rb"]

(***************************************************************************)
(* C2                                                                      *)
(***************************************************************************)
\* C2 as stated: of two declarations D1 then D2 of the same (kind, name)
\* in one domain (D1 the first of that key, D2 the next), D1 emits no
\* duplicate warning and D2 emits exactly one, naming the path of D1's
\* document.
C2_SecondDeclarationWarns ==
    \A j \in 1..Len(log) :
        (~log[j].raised /\ EarlierDeclarations(j) # {}) =>
            LET d1 == SetMin(EarlierDeclarations(j))
                d2 == SetMin({ i \in 1..j : d1 \in EarlierDeclarations(i) })
            IN /\ log[d1].warned = <<>>
               /\ Len(log[d2].warned) = 1
               /\ log[d2].warned[1].other = Doc2Path(log[d1].doc)

\* the declarations of the key of directive j through its domain that were
\* registered: each was the first of that kind and name in its document
EarlierRegistered(j) == { i \in EarlierDeclarations(j) : FirstInDocument(i) }

\* C2 amended: a declaration emits at most one duplicate warning.  It emits
\* one exactly when its document holds no id kind-name yet and an earlier
\* declaration of the same (kind, name) through the same domain was
\* registered; the warning names the path of the document of the latest
\* registered one.  The first declaration of a key emits none, and so does
\* a declaration in a document that already holds the id.
C2_WarnsWhenNewInDocument ==
    /\ \A j \in 1..Len(log) :
          log[j].warned =
             IF FirstInDocument(j) /\ EarlierRegistered(j) # {}
             THEN << [objtype |-> log[j].objtype, name |-> log[j].name,
                      other |-> Doc2Path(log[SetMax(EarlierRegistered(j))].doc)] >>
             ELSE <<>>
    /\ Len(warnings) =
          Cardinality({ j \in 1..Len(log) : log[j].warned # <<>> })
    /\ \A w \in 1..Len(warnings) :
          \E j \in 1..Len(log) : log[j].warned = <<warnings[w]>>

\* the same type is declared in index, in api (one warning, naming
\* index.rst) and in index again (no warning)
C2_Witness ==
    /\ Len(log) = 3
    /\ \A j \in 1..3 : log[j].dom = "go" /\ log[j].objtype = "type"
    /\ log[1].doc = "index" /\ log[2].doc = "api" /\ log[3].doc = "index"
    /\ Len(warnings) = 1
    /\ warnings[1].other = "index.rst"
    /\ log[3].warned = <<>>

(***************************************************************************)
(* C3                                                                      *)
(***************************************************************************)
\* C3 as stated: each domain's registry holds an entry for every (kind,
\* name) declared through that domain, and its value is the document of the
\* most recent declaration of that key.
C3_LastDeclarationWins ==
    \A j \in 1..Len(log) :
        (~log[j].raised /\ \A i \in (j + 1)..Len(log) : j \notin EarlierDeclarations(i))
            => /\ ObjectKey(log[j].objtype, log[j].name) \in DOMAIN objects[log[j].dom]
               /\ objects[log[j].dom][ObjectKey(log[j].objtype, log[j].name)]
                     = log[j].doc

\* the declarations through dom that were registered
Registered(dom) ==
    { j \in 1..Len(log) : log[j].dom = dom /\ FirstInDocument(j) }

\* C3 amended: each domain's registry holds an entry exactly for the
\* (kind, name) of the declarations through that domain whose document held
\* no id kind-name yet; its value is the document of the most recent such
\* declaration; no entry is ever removed.
C3_LastRegisteredWins ==
    \A dom \in DomainNames :
        /\ DOMAIN objects[dom] =
              { ObjectKey(log[j].objtype, log[j].name) : j \in Registered(dom) }
        /\ \A key \in DOMAIN objects[dom] :
              objects[dom][key] =
                 log[SetMax({ j \in Registered(dom) :
                      ObjectKey(log[j].objtype, log[j].name) = key })].doc

\* go:type L and sql:type L in index, then sql:type L in api: the SQL
\* registry holds the key for api alone, and no warning was given
C3_Witness ==
    /\ Len(log) = 3
    /\ log[1].dom = "go" /\ log[2].dom = "sql" /\ log[3].dom = "sql"
    /\ \A j \in 1..3 : log[j].objtype = "type"
    /\ log[1].doc = "index" /\ log[2].doc = "index" /\ log[3].doc = "api"
    /\ objects["sql"][<<"type", <<"L">>>>] = "api"
    /\ objects["go"][<<"type", <<"L">>>>] = "index"
    /\ warnings = <<>>

(***************************************************************************)
(* C4                                                                      *)
(***************************************************************************)
\* C4 as stated: processing a module, package, namespace or class
\* declaration, in any registered domain, overwrites the namespace context
\* with that directive's argument.
C4_ClassOverwritesNamespace ==
    (log # <<>> /\ Last(log).objtype \in {"module", "package", "namespace", "class"})
        => namespace = Strip(Last(log).argument)

\* C4 amended: processing a directive made by make_namespace_directive
\* (lisp:package, dotnet:namespace, ex/erl/lua/ml/rb:module,
\* go/java/jvm/kt:package, php:namespace, sql:schema) overwrites the
\* namespace context with its stripped argument; every other directive, the
\* class directives and ex/erl/ml/php:package among them, leaves the context
\* as it was, so a class declared after a module does not discard the
\* module, and nothing restores an outer scope.
C4_OnlyNamespaceDirectivesOverwrite ==
    [][ IF IntroducesNamespace(Last(log'))
        THEN namespace' = Strip(Last(log').argument)
        ELSE namespace' = namespace ]_vars

\* a Ruby class declared after a Ruby module: the module stays the namespace
C4_Witness ==
    /\ Len(log) = 2
    /\ log[1].dom = "rb" /\ log[1].objtype = "module"
    /\ log[1].argument = <<"N">>
    /\ log[2].dom = "rb" /\ log[2].objtype = "class"
    /\ namespace = <<"N">>

(***************************************************************************)
(* C5                                                                      *)
(***************************************************************************)
IsFunction(e) == <<e.dom, e.objtype>> \in { <<"go", "func">>, <<"sql", "function">> }
IsProperty(e) == <<e.dom, e.objtype>> = <<"kt", "property">>
HasNoSeparator(e) == <<e.dom, e.objtype>> \in WithoutSeparator

\* C5 as stated: for each of the separators . :: \ : and #, a member
\* directive registered with that separator (the Kotlin property for #),
\* given local name L under namespace N, produces N + separator + L.
C5_FiveSeparators ==
    (MemberDone /\ Last(log).ns # None /\ ~HasNoSeparator(Last(log))) =>
        DisplayedName =
            Last(log).ns
            \o (IF IsProperty(Last(log)) THEN <<"#">>
                ELSE LanguageSeparator[Last(log).dom])
            \o TextOf("desc_name")

\* C5 amended: for each of the separators . :: \ and : a member directive
\* made by make_directive with that separator, given local name L under
\* namespace N, displays N + separator + L (a desc_addname N + separator,
\* then the desc_name L); Go func and SQL function display N + "." + name.
\* No directive is registered with #: the Kotlin property, given
\* Owner#member: Type, displays N + "." + Owner + "." + member.  A directive
\* made without a separator displays L alone.
C5_FourSeparators ==
    (MemberDone /\ Last(log).ns # None) =>
        LET e == Last(log)
        IN /\ TextOf("desc_name") =
                 (IF IsProperty(e) THEN <<"p">> ELSE LocalName(e.argument))
           /\ DisplayedName =
                 IF HasNoSeparator(e) THEN e.sig
                 ELSE IF IsProperty(e) THEN e.ns \o <<".", "C", ".", "p">>
                 ELSE e.ns \o LanguageSeparator[e.dom] \o LocalName(e.argument)
           /\ HasNoSeparator(e) <=> TextOf("desc_addname") = None

\* a Common Lisp class L in package N is displayed as N:L
C5_Witness ==
    /\ MemberDone
    /\ Last(log).dom = "lisp" /\ Last(log).objtype = "class"
    /\ TextOf("desc_addname") = <<"N", ":">>
    /\ DisplayedName = <<"N", ":", "L">>

(***************************************************************************)
(* C6                                                                      *)
(***************************************************************************)
\* C6: member directives only read the namespace context, whether their
\* signature parses or not: at every read, and after every directive, the
\* context is the stripped argument of the most recently processed
\* namespace directive, or absent if there was none.
C6_MembersOnlyRead ==
    /\ namespace = ContextAfter(Len(log))
    /\ \A j \in 1..Len(log) : log[j].ns = ContextAfter(j)

\* a Go func whose signature does not parse, after a namespace directive
\* whose argument carries whitespace
C6_Witness ==
    /\ Len(log) = 2
    /\ IntroducesNamespace(log[1])
    /\ log[1].argument = <<" ", "M", ".", "K", " ">>
    /\ log[2].dom = "go" /\ log[2].objtype = "func" /\ log[2].raised
    /\ log[2].ns = <<"M", ".", "K">>
    /\ namespace = <<"M", ".", "K">>

(***************************************************************************)
(* C10                                                                     *)
(***************************************************************************)
StartsWith(s, prefix) ==
    Len(s) >= Len(prefix) /\ SubSeq(s, 1, Len(prefix)) = prefix

\* C10: the namespace context is one slot for all domains: a member
\* directive with a separator prefixes its name with the namespace set by
\* the latest namespace directive, of whatever domain, joined by its own
\* separator; before any namespace directive it displays no prefix.
C10_OneSlotForAllDomains ==
    (MemberDone /\ ~HasNoSeparator(Last(log))) =>
        LET j == LastNamespaceDirective(Len(log))
        IN IF j = 0
           THEN TextOf("desc_addname") = None
           ELSE StartsWith(TextOf("desc_addname"),
                    Strip(log[j].argument) \o LanguageSeparator[Last(log).dom])

\* a PHP class after an SQL schema M.K is displayed as M.K\L
C10_Witness ==
    /\ Len(log) = 2
    /\ log[1].dom = "sql" /\ log[1].objtype = "schema"
    /\ log[2].dom = "php" /\ log[2].objtype = "class"
    /\ DisplayedName = <<"M", ".", "K", "\\", "L">>

(***************************************************************************)
(* C7                                                                      *)
(***************************************************************************)
\* (name, parameters, returnType) as the last Go func or SQL function
\* directive matched them
FunctionGroups ==
    IF Last(log).dom = "go"
    THEN <<out.groups[2], out.groups[3], out.groups[4]>>
    ELSE out.groups

\* C7: every signature name(params) ret given to the Go func or the SQL
\* function directive parses to that name, to the whole text between the
\* parentheses as parameters, and to ret as return type; with an empty ret
\* no return annotation is produced.  (params ranges over the texts whose
\* own parentheses are balanced.)
C7_ParsesNameParamsReturn ==
    (log # <<>> /\ IsFunction(Last(log))) =>
        /\ \A n \in FuncNames, p \in { q \in FuncParams : Balanced(q) },
              r \in FuncReturns :
              Last(log).sig = Join(n, <<>>, p, r) =>
                 /\ ~out.raised
                 /\ FunctionGroups = <<n, p, r>>
                 /\ r = <<>> <=> TextOf("desc_returns") = None
        /\ Last(log).sig = MapSignatureText =>
              /\ ~out.raised
              /\ FunctionGroups = << <<"M","a","p">>,
                                     <<"f"," ","f","u","n","c","(","i","n","t",")"," ","i","n","t">>,
                                     <<"[","]","i","n","t">> >>

(***************************************************************************)
(* C8                                                                      *)
(***************************************************************************)
IsGoFunc(e) == <<e.dom, e.objtype>> = <<"go", "func">>

ReceiverVariables == Strings({"s"}, 1, MaxReceiver)

\* receiver types: they do not begin with whitespace
ReceiverTypes ==
    { ty \in Strings({"T", " "}, 1, MaxReceiver) : Head(ty) \notin SpaceChars }

\* C8 as stated: a Go signature with a leading receiver clause (v T),
\* then name(params) ret, parses to the receiver clause v T, name, params
\* and ret; the example func (s *Server) Handle(req *Request) error parses
\* to receiver s *Server, name Handle, parameters req *Request, returnType
\* error.
C8_ReceiverIsTheClause ==
    (log # <<>> /\ IsGoFunc(Last(log))) =>
        /\ \A v \in ReceiverVariables, ty \in ReceiverTypes, n \in FuncNames,
              p \in Strings({"a"}, 0, MaxParams), r \in FuncReturns :
              Last(log).sig = ReceiverClause(v, ty) \o Join(n, <<>>, p, r) =>
                 /\ ~out.raised
                 /\ out.groups = <<v \o <<" ">> \o ty, n, p, r>>
        /\ Last(log).sig = FuncHandleSignatureText =>
              /\ ~out.raised
              /\ out.groups = << <<"s"," ","*","S","e","r","v","e","r">>,
                                 <<"H","a","n","d","l","e">>,
                                 <<"r","e","q"," ","*","R","e","q","u","e","s","t">>,
                                 <<"e","r","r","o","r">> >>

\* the text of s before its first c, and the text after it
RECURSIVE Before(_, _)
Before(s, c) ==
    IF s = <<>> \/ Head(s) = c THEN <<>> ELSE <<Head(s)>> \o Before(Tail(s), c)

After(s, c) == SubSeq(s, Len(Before(s, c)) + 2, Len(s))

\* C8 amended: for a Go signature (v T) name(params) ret, where v is a
\* token without whitespace and T a text without ")" that does not begin
\* with whitespace, the receiver capture is T, the clause without its
\* leading token v; name is the name, the parameters are the text from the
\* opening parenthesis to the first ")" after it, the return type is what
\* follows that ")", without leading whitespace (params and ret themselves
\* when params holds no ")").  The receiver is absent exactly when the
\* signature does not begin with a parenthesis.  The example
\* func (s *Server) Handle(req *Request) error parses to no receiver, name
\* func, parameters s *Server, returnType Handle(req *Request) error;
\* without the func keyword it parses to receiver *Server, name Handle,
\* parameters req *Request, returnType error.
C8_ReceiverIsTheType ==
    (log # <<>> /\ IsGoFunc(Last(log))) =>
        /\ Last(log).sig \in MethodSignatures =>
              LET sig    == Last(log).sig
                  clause == Before(Tail(sig), ")")
                  ty     == After(clause, " ")
                  func   == LStrip(After(sig, ")"))
                  rest   == After(func, "(")
              IN Head(ty) \notin SpaceChars =>
                    /\ ~out.raised
                    /\ out.groups = << ty, RStrip(Before(func, "(")),
                                       Before(rest, ")"),
                                       LStrip(After(rest, ")")) >>
        /\ ~out.raised => (out.groups[1] = None <=> Head(Last(log).sig) # "(")
        /\ Last(log).sig = FuncHandleSignatureText =>
              /\ ~out.raised
              /\ out.groups = << None,
                                 <<"f","u","n","c">>,
                                 <<"s"," ","*","S","e","r","v","e","r">>,
                                 <<"H","a","n","d","l","e","(","r","e","q"," ","*","R","e","q","u","e","s","t",")"," ","e","r","r","o","r">> >>
        /\ Last(log).sig = HandleSignatureText =>
              /\ ~out.raised
              /\ out.groups = << <<"*","S","e","r","v","e","r">>,
                                 <<"H","a","n","d","l","e">>,
                                 <<"r","e","q"," ","*","R","e","q","u","e","s","t">>,
                                 <<"e","r","r","o","r">> >>

\* the example without the func keyword: the receiver capture is *Server
C8_Witness ==
    /\ log # <<>>
    /\ IsGoFunc(Last(log))
    /\ Last(log).sig = HandleSignatureText
    /\ out.groups[1] = <<"*","S","e","r","v","e","r">>
    /\ out.nodes[2] = MakeParameterList(<< <<"*","S","e","r","v","e","r">> >>)

(***************************************************************************)
(* C9                                                                      *)
(***************************************************************************)
\* s holds a "#" and, somewhere after it, a ":"
HashThenColon(s) ==
    \E i \in 1..Len(s), j \in 1..Len(s) : i < j /\ s[i] = "#" /\ s[j] = ":"

\* C9: every signature Owner#member: Type given to the Kotlin property
\* directive (Owner a dotted identifier, member an identifier) parses to
\* owner, member and type, Widget#size: Int to Widget, size and Int; every
\* signature without a "#" followed later by a ":" fails with a parsing
\* error and yields no name.
C9_PropertySignatures ==
    (log # <<>> /\ IsProperty(Last(log))) =>
        /\ \A o \in Owners, m \in Members, g \in Gap, ty \in Types :
              Last(log).sig = PropertySignature(o, m, g, ty) =>
                 /\ ~out.raised
                 /\ out.groups = <<o, m, ty>>
                 /\ out.name = o \o <<"#">> \o m
        /\ Last(log).sig = WidgetSignatureText =>
              /\ ~out.raised
              /\ out.groups = << <<"W","i","d","g","e","t">>, <<"s","i","z","e">>,
                                 <<"I","n","t">> >>
        /\ ~HashThenColon(Last(log).sig) =>
              /\ out.raised
              /\ out.name = None
              /\ Last(log).name = None
              /\ \A dom \in DomainNames : objects[dom] = <<>>

\* a signature with ":" before "#" raised the parsing error
C9_Witness ==
    /\ log # <<>>
    /\ IsProperty(Last(log))
    /\ Last(log).sig = <<"C", ":", "#", "C">>
    /\ out.raised
    /\ out.nodes = <<>>

====
